---- MODULE Spec2Model ----
(***************************************************************************)
(* RiskGuardAgentExecutor (src/riskguard/agent_executor.py): the A2A       *)
(* executor that validates a request, gets or creates an ADK session,      *)
(* runs the ADK runner, scans its event stream for the risk_check_result   *)
(* function response, enqueues one message and closes the event queue.     *)
(*                                                                         *)
(* One step of the model is the code between two awaits of a coroutine,    *)
(* together with the external call the await is made on and its outcome.   *)
(* The session service, the runner and the event queue are the             *)
(* environment: each call returns one of the outcomes its interface        *)
(* allows (a value, None, or an exception).                                *)
(***************************************************************************)
EXTENDS Naturals, Sequences, FiniteSets, TLC

VARIABLES
    pc,                \* r -> where the coroutine execute(r) stands
    context,           \* r -> the RequestContext handed to execute(r)
    session,           \* r -> local `session`
    risk_result_dict,  \* r -> local `risk_result_dict`
    exc,               \* r -> the exception being handled or propagating
    stream,            \* r -> the run_async stream of execute(r), as driven so far
    sessions,          \* the session service: keys of the stored sessions
    calls,             \* r -> session service and runner calls made by execute(r)
    chan               \* r -> operations received by the event queue of r

vars == <<pc, context, session, risk_result_dict, exc, stream, sessions, calls, chan>>

----------------------------------------------------------------------------
\* Bounds of the model.
MaxReqs == 2       \* requests handed to the executor
MaxEvents == 2     \* events one run_async stream yields at most
MaxCancels == 1    \* cancel calls over all requests

Reqs == 1 .. MaxReqs

----------------------------------------------------------------------------
\* Values.

\* Python None, where the value is otherwise a string.
NULL == "None"

\* bool(s) of a str-or-None value.
Truthy(s) == s # NULL /\ s # ""

APP_NAME == "riskguard_adk_runner"
USER_ID == "a2a_user"
RESULT_NAME == "risk_check_result"

ContextIds == {NULL, "", "s1", "s2"}
TaskId(r) == "t" \o ToString(r)

\* Parts of the inbound message; a DataPart's data is a dict, here its key
\* set and whether json.dumps accepts its values.
RequiredKeys == {"trade_proposal", "portfolio_state"}
TextPart == [kind |-> "text", keys |-> {}, json_ok |-> TRUE]
DataPart(keys, ok) == [kind |-> "data", keys |-> keys, json_ok |-> ok]
NoMessage == [present |-> FALSE, parts |-> <<>>]
Message(parts) == [present |-> TRUE, parts |-> parts]
Messages ==
    {NoMessage, Message(<<>>), Message(<<TextPart>>),
     Message(<<TextPart, DataPart(RequiredKeys, TRUE)>>),
     Message(<<DataPart(RequiredKeys, FALSE)>>)}
    \cup {Message(<<DataPart(k, TRUE)>>) : k \in SUBSET RequiredKeys}

NoData == [kind |-> "none", keys |-> {}, json_ok |-> TRUE]

NoContext == [context_id |-> NULL, task_id |-> NULL, message |-> NoMessage]

\* Exceptions: str(e) is msg.
NoExc == [type |-> "", msg |-> ""]
Error(type, msg) == [type |-> type, msg |-> msg]
EngineError == Error("RuntimeError", "engine failure")
QueueError == Error("RuntimeError", "queue failure")
JsonError == Error("TypeError", "Object is not JSON serializable")

\* Sessions of the session service, identified by (app_name, user_id, id).
NoSession == [app_name |-> NULL, user_id |-> NULL, id |-> NULL]
SessionKey(app, user, id) == [app_name |-> app, user_id |-> user, id |-> id]

\* A function response's `response`: a dict {approved, reason} or a str.
Dict(approved, reason) == [type |-> "dict", approved |-> approved, reason |-> reason]
Str(text) == [type |-> "str", approved |-> FALSE, reason |-> text]
NoResponse == [type |-> "none", approved |-> FALSE, reason |-> ""]
DefaultResult == Dict(FALSE, "Agent did not produce a result.")

\* Parts of an engine event, and the events the engine may yield.
NoFunctionResponse == [present |-> FALSE, name |-> "", response |-> NoResponse]
FunctionResponse(name, resp) == [present |-> TRUE, name |-> name, response |-> resp]
EventPart(fr) == [function_response |-> fr]
TextEventPart == EventPart(NoFunctionResponse)
Event(parts) == [has_content |-> TRUE, parts |-> parts]
EmptyEvent == [has_content |-> FALSE, parts |-> <<>>]
Approve == Dict(TRUE, "ok")
Deny == Dict(FALSE, "exceeds exposure limit")
Events ==
    {EmptyEvent, Event(<<>>), Event(<<TextEventPart>>),
     Event(<<EventPart(FunctionResponse("other_tool", Approve))>>),
     Event(<<EventPart(FunctionResponse(RESULT_NAME, Str("approved")))>>),
     Event(<<EventPart(FunctionResponse(RESULT_NAME, Approve))>>),
     Event(<<EventPart(FunctionResponse(RESULT_NAME, Deny))>>),
     Event(<<TextEventPart, EventPart(FunctionResponse(RESULT_NAME, Approve))>>)}

\* The runner's stream as execute has driven it: how many events it has
\* yielded, the last one (the loop variable `event`), whether it has ended or
\* raised, and the first yielded event that has a risk_check_result dict in
\* any of its parts (its response and its position in the stream).
NoStream ==
    [consumed |-> 0, last |-> EmptyEvent, ended |-> FALSE, raised |-> FALSE,
     carried |-> NoResponse, carried_at |-> 0]

\* Outbound messages and event queue operations.
OutMessage(ctx, task, data) == [context_id |-> ctx, task_id |-> task, data |-> data]
NoOutMessage == OutMessage(NULL, NULL, NoResponse)
EnqueueOp(msg, ok) == [op |-> "enqueue", by |-> "execute", ok |-> ok, message |-> msg]
CloseOp(who) == [op |-> "close", by |-> who, ok |-> TRUE, message |-> NoOutMessage]

Call(op, app, user, id, result) ==
    [op |-> op, app_name |-> app, user_id |-> user, session_id |-> id, result |-> result]

Returned(r) == pc[r] \in {"returned", "raised"}

----------------------------------------------------------------------------
Init ==
    /\ pc = [r \in Reqs |-> "idle"]
    /\ context = [r \in Reqs |-> NoContext]
    /\ session = [r \in Reqs |-> NoSession]
    /\ risk_result_dict = [r \in Reqs |-> NoResponse]
    /\ exc = [r \in Reqs |-> NoExc]
    /\ stream = [r \in Reqs |-> NoStream]
    /\ sessions = {}
    /\ calls = [r \in Reqs |-> <<>>]
    /\ chan = [r \in Reqs |-> <<>>]

----------------------------------------------------------------------------
\* The synchronous pieces of execute.

\* agent_input_data: the data of the first part when it is a DataPart.
AgentInputData(message) ==
    IF message.present /\ message.parts # <<>>
    THEN IF message.parts[1].kind = "data" THEN message.parts[1] ELSE NoData
    ELSE NoData

\* PayloadIncomplete with `and` between the two key tests.
PayloadIncompleteBoth(data) ==
    \/ data.kind # "data"
    \/ data.keys = {}
    \/ ("trade_proposal" \notin data.keys /\ "portfolio_state" \notin data.keys)

\* The condition of the second raise: no data, an empty dict, or a missing key.
PayloadIncomplete(data) ==
    \/ data.kind # "data"
    \/ data.keys = {}
    \/ "trade_proposal" \notin data.keys
    \/ "portfolio_state" \notin data.keys

\* ValidationError without the test of context.context_id.
ValidationErrorNoContextTest(c) ==
    IF PayloadIncomplete(AgentInputData(c.message))
    THEN Error("ValueError", "Missing 'trade_proposal' or 'portfolio_state' in data payload")
    ELSE IF ~AgentInputData(c.message).json_ok
    THEN JsonError
    ELSE NoExc

\* What the code before the first await raises, NoExc when it raises nothing.
ValidationError(c) ==
    IF ~Truthy(c.context_id)
    THEN Error("ValueError", "Context ID is missing, cannot execute.")
    ELSE IF PayloadIncomplete(AgentInputData(c.message))
    THEN Error("ValueError", "Missing 'trade_proposal' or 'portfolio_state' in data payload")
    ELSE IF ~AgentInputData(c.message).json_ok
    THEN JsonError
    ELSE NoExc

SessionError(id) ==
    Error("ConnectionError",
          "Failed to establish ADK session. session_id was '" \o id \o "'.")

\* EventMatches without the test of the function response's name.
EventMatchesAnyName(event) ==
    /\ event.has_content
    /\ event.parts # <<>>
    /\ event.parts[1].function_response.present
    /\ event.parts[1].function_response.response.type = "dict"

\* EventMatches without the isinstance(response_data, dict) test.
EventMatchesAnyResponse(event) ==
    /\ event.has_content
    /\ event.parts # <<>>
    /\ event.parts[1].function_response.present
    /\ event.parts[1].function_response.name = RESULT_NAME

\* The loop body's test: the first part of the event's content is a function
\* response named risk_check_result whose response is a dict.
EventMatches(event) ==
    /\ event.has_content
    /\ event.parts # <<>>
    /\ event.parts[1].function_response.present
    /\ event.parts[1].function_response.name = RESULT_NAME
    /\ event.parts[1].function_response.response.type = "dict"

FinalMessage(c, data) == OutMessage(c.context_id, c.task_id, data)

ErrorReason(e) == "An internal error occurred: " \o e.msg

\* ErrorMessage without the task_id argument.
ErrorMessageNoTask(c, e) ==
    OutMessage(c.context_id, NULL, Dict(FALSE, ErrorReason(e)))

ErrorMessage(c, e) ==
    OutMessage(c.context_id, c.task_id, Dict(FALSE, ErrorReason(e)))

\* The stream bookkeeping after drawing one more event.
Carries(event) ==
    \E i \in 1 .. Len(event.parts) :
        /\ event.has_content
        /\ event.parts[i].function_response.present
        /\ event.parts[i].function_response.name = RESULT_NAME
        /\ event.parts[i].function_response.response.type = "dict"

CarriedResponse(event) ==
    LET i == CHOOSE j \in 1 .. Len(event.parts) :
                 /\ event.parts[j].function_response.present
                 /\ event.parts[j].function_response.name = RESULT_NAME
                 /\ event.parts[j].function_response.response.type = "dict"
                 /\ \A k \in 1 .. (j - 1) :
                        ~(/\ event.parts[k].function_response.present
                          /\ event.parts[k].function_response.name = RESULT_NAME
                          /\ event.parts[k].function_response.response.type = "dict")
    IN event.parts[i].function_response.response

Drawn(s, event) ==
    [s EXCEPT !.consumed = @ + 1,
              !.last = event,
              !.carried = IF s.carried_at = 0 /\ Carries(event)
                          THEN CarriedResponse(event) ELSE @,
              !.carried_at = IF s.carried_at = 0 /\ Carries(event)
                             THEN s.consumed + 1 ELSE @]

----------------------------------------------------------------------------
\* The environment's answers.

\* get_session finds a stored session or returns None, or raises.
GetOutcomes(key) ==
    (IF key \in sessions THEN {"session"} ELSE {"none"}) \cup {"raise"}

\* create_session stores and returns the session, returns None, or raises.
CreateOutcomes == {"session", "none", "raise"}

CancelCount ==
    Cardinality(UNION {{<<r, i>> : i \in {j \in 1 .. Len(chan[r]) : chan[r][j].by = "cancel"}}
                       : r \in Reqs})

----------------------------------------------------------------------------
\* execute, one action per stretch of code that ends at an await.

\* The call of execute up to the first await: validation and json.dumps.
\* The request is any of ids x msgs.
ExecuteWith(r, ids, msgs) ==
    /\ pc[r] = "idle"
    /\ \E id \in ids, m \in msgs :
        LET c == [context_id |-> id, task_id |-> TaskId(r), message |-> m]
            e == ValidationError(c)
        IN /\ context' = [context EXCEPT ![r] = c]
           /\ IF e # NoExc
              THEN /\ pc' = [pc EXCEPT ![r] = "except"]
                   /\ exc' = [exc EXCEPT ![r] = e]
              ELSE IF Truthy(id)
              THEN /\ pc' = [pc EXCEPT ![r] = "get_session"]
                   /\ exc' = exc
              ELSE /\ pc' = [pc EXCEPT ![r] = "except"]
                   /\ exc' = [exc EXCEPT ![r] = SessionError(id)]
    /\ UNCHANGED <<session, risk_result_dict, stream, sessions, calls, chan>>

Execute(r) == ExecuteWith(r, ContextIds, Messages)

\* GetSession with `session = None` after the try statement instead of in its
\* except clause: what get_session returned is dropped.
GetSessionDiscard(r) ==
    /\ pc[r] = "get_session"
    /\ LET key == SessionKey(APP_NAME, USER_ID, context[r].context_id)
       IN \E out \in GetOutcomes(key) :
            /\ calls' = [calls EXCEPT ![r] =
                   Append(@, Call("get_session", APP_NAME, USER_ID, key.id, out))]
            /\ session' = [session EXCEPT ![r] = NoSession]
            /\ pc' = [pc EXCEPT ![r] = "create_session"]
    /\ UNCHANGED <<context, risk_result_dict, exc, stream, sessions, chan>>

\* GetSession without the inner try statement: a raise of get_session goes
\* to the except clause of execute.
GetSessionPropagate(r) ==
    /\ pc[r] = "get_session"
    /\ LET key == SessionKey(APP_NAME, USER_ID, context[r].context_id)
       IN \E out \in GetOutcomes(key) :
            /\ calls' = [calls EXCEPT ![r] =
                   Append(@, Call("get_session", APP_NAME, USER_ID, key.id, out))]
            /\ session' = [session EXCEPT ![r] =
                   IF out = "session" THEN key ELSE NoSession]
            /\ pc' = [pc EXCEPT ![r] =
                   IF out = "session" THEN "run_async"
                   ELSE IF out = "raise" THEN "except" ELSE "create_session"]
            /\ exc' = [exc EXCEPT ![r] =
                   IF out = "raise" THEN Error("RuntimeError", "store failure") ELSE @]
    /\ UNCHANGED <<context, risk_result_dict, stream, sessions, chan>>

\* await session_service.get_session(...); a raise is logged and swallowed.
GetSession(r) ==
    /\ pc[r] = "get_session"
    /\ LET key == SessionKey(APP_NAME, USER_ID, context[r].context_id)
       IN \E out \in GetOutcomes(key) :
            /\ calls' = [calls EXCEPT ![r] =
                   Append(@, Call("get_session", APP_NAME, USER_ID, key.id, out))]
            /\ session' = [session EXCEPT ![r] =
                   IF out = "session" THEN key ELSE NoSession]
            /\ pc' = [pc EXCEPT ![r] =
                   IF out = "session" THEN "run_async" ELSE "create_session"]
    /\ UNCHANGED <<context, risk_result_dict, exc, stream, sessions, chan>>

\* CreateSession without the `if not session: raise` that follows it.
CreateSessionNoCheck(r) ==
    /\ pc[r] = "create_session"
    /\ LET key == SessionKey(APP_NAME, USER_ID, context[r].context_id)
       IN \E out \in CreateOutcomes :
            /\ calls' = [calls EXCEPT ![r] =
                   Append(@, Call("create_session", APP_NAME, USER_ID, key.id, out))]
            /\ sessions' = IF out = "session" THEN sessions \cup {key} ELSE sessions
            /\ session' = [session EXCEPT ![r] =
                   IF out = "session" THEN key ELSE NoSession]
            /\ pc' = [pc EXCEPT ![r] = "run_async"]
    /\ UNCHANGED <<context, risk_result_dict, exc, stream, chan>>

\* await session_service.create_session(...), then `if not session: raise`.
CreateSession(r) ==
    /\ pc[r] = "create_session"
    /\ LET key == SessionKey(APP_NAME, USER_ID, context[r].context_id)
       IN \E out \in CreateOutcomes :
            /\ calls' = [calls EXCEPT ![r] =
                   Append(@, Call("create_session", APP_NAME, USER_ID, key.id, out))]
            /\ sessions' = IF out = "session" THEN sessions \cup {key} ELSE sessions
            /\ session' = [session EXCEPT ![r] =
                   IF out = "session" THEN key ELSE NoSession]
            /\ IF out = "session"
               THEN /\ pc' = [pc EXCEPT ![r] = "run_async"]
                    /\ exc' = exc
               ELSE /\ pc' = [pc EXCEPT ![r] = "except"]
                    /\ exc' = [exc EXCEPT ![r] = SessionError(key.id)]
    /\ UNCHANGED <<context, risk_result_dict, stream, chan>>

\* RunAsync with a user_id of its own instead of the session's.
RunAsyncOtherUser(r) ==
    /\ pc[r] = "run_async"
    /\ risk_result_dict' = [risk_result_dict EXCEPT ![r] = DefaultResult]
    /\ \E out \in {"stream", "raise"} :
        /\ calls' = [calls EXCEPT ![r] =
               Append(@, Call("run_async", NULL, "user", context[r].context_id, out))]
        /\ IF out = "stream"
           THEN /\ pc' = [pc EXCEPT ![r] = "iterate"]
                /\ exc' = exc
           ELSE /\ pc' = [pc EXCEPT ![r] = "except"]
                /\ exc' = [exc EXCEPT ![r] = EngineError]
    /\ UNCHANGED <<context, session, stream, sessions, chan>>

\* risk_result_dict gets its default and run_async(...) is called.
RunAsync(r) ==
    /\ pc[r] = "run_async"
    /\ risk_result_dict' = [risk_result_dict EXCEPT ![r] = DefaultResult]
    /\ \E out \in {"stream", "raise"} :
        /\ calls' = [calls EXCEPT ![r] =
               Append(@, Call("run_async", NULL, USER_ID, context[r].context_id, out))]
        /\ IF out = "stream"
           THEN /\ pc' = [pc EXCEPT ![r] = "iterate"]
                /\ exc' = exc
           ELSE /\ pc' = [pc EXCEPT ![r] = "except"]
                /\ exc' = [exc EXCEPT ![r] = EngineError]
    /\ UNCHANGED <<context, session, stream, sessions, chan>>

\* The stream yields an event and the loop body runs on it.
NextEventWith(r, events) ==
    /\ pc[r] = "iterate"
    /\ stream[r].consumed < MaxEvents
    /\ \E event \in events :
        /\ stream' = [stream EXCEPT ![r] = Drawn(@, event)]
        /\ IF EventMatches(event)
           THEN /\ risk_result_dict' = [risk_result_dict EXCEPT ![r] =
                        event.parts[1].function_response.response]
                /\ pc' = [pc EXCEPT ![r] = "enqueue"]
           ELSE /\ risk_result_dict' = risk_result_dict
                /\ pc' = pc
    /\ UNCHANGED <<context, session, exc, sessions, calls, chan>>

NextEvent(r) == NextEventWith(r, Events)

\* StreamEnd that answers the end of the stream by calling run_async again
\* for a fresh stream.
StreamEndRestart(r) ==
    /\ pc[r] = "iterate"
    /\ stream' = [stream EXCEPT ![r] = NoStream]
    /\ UNCHANGED <<pc, context, session, risk_result_dict, exc, sessions, calls, chan>>

\* The stream ends: the loop is left with risk_result_dict as it is.
StreamEnd(r) ==
    /\ pc[r] = "iterate"
    /\ stream' = [stream EXCEPT ![r].ended = TRUE]
    /\ pc' = [pc EXCEPT ![r] = "enqueue"]
    /\ UNCHANGED <<context, session, risk_result_dict, exc, sessions, calls, chan>>

\* StreamRaise with the loop in a try statement of its own that logs and
\* goes on to build final_message.
StreamRaiseSwallowed(r) ==
    /\ pc[r] = "iterate"
    /\ stream' = [stream EXCEPT ![r].raised = TRUE]
    /\ pc' = [pc EXCEPT ![r] = "enqueue"]
    /\ UNCHANGED <<context, session, risk_result_dict, exc, sessions, calls, chan>>

\* The stream raises instead of yielding.
StreamRaise(r) ==
    /\ pc[r] = "iterate"
    /\ stream' = [stream EXCEPT ![r].raised = TRUE]
    /\ pc' = [pc EXCEPT ![r] = "except"]
    /\ exc' = [exc EXCEPT ![r] = EngineError]
    /\ UNCHANGED <<context, session, risk_result_dict, sessions, calls, chan>>

\* EnqueueFinal with the close after the try statement instead of in a finally
\* clause, and the enqueue outside the try: a raise leaves execute at once.
EnqueueFinalUnguarded(r) ==
    /\ pc[r] = "enqueue"
    /\ \E ok \in BOOLEAN :
        /\ chan' = [chan EXCEPT ![r] =
               Append(@, EnqueueOp(FinalMessage(context[r], risk_result_dict[r]), ok))]
        /\ pc' = [pc EXCEPT ![r] = IF ok THEN "finally" ELSE "raised"]
    /\ UNCHANGED <<context, session, risk_result_dict, exc, stream, sessions, calls>>

\* EnqueueFinal that answers a raise of enqueue_event by running the agent
\* again.
EnqueueFinalRetry(r) ==
    /\ pc[r] = "enqueue"
    /\ \E ok \in BOOLEAN :
        /\ chan' = [chan EXCEPT ![r] =
               Append(@, EnqueueOp(FinalMessage(context[r], risk_result_dict[r]), ok))]
        /\ pc' = [pc EXCEPT ![r] = IF ok THEN "finally" ELSE "run_async"]
    /\ UNCHANGED <<context, session, risk_result_dict, exc, stream, sessions, calls>>

\* final_message is built and enqueued; a raise of enqueue_event is caught
\* by the except clause like any other.
EnqueueFinal(r) ==
    /\ pc[r] = "enqueue"
    /\ \E ok \in BOOLEAN :
        /\ chan' = [chan EXCEPT ![r] =
               Append(@, EnqueueOp(FinalMessage(context[r], risk_result_dict[r]), ok))]
        /\ IF ok
           THEN /\ pc' = [pc EXCEPT ![r] = "finally"]
                /\ exc' = exc
           ELSE /\ pc' = [pc EXCEPT ![r] = "except"]
                /\ exc' = [exc EXCEPT ![r] = QueueError]
    /\ UNCHANGED <<context, session, risk_result_dict, stream, sessions, calls>>

\* Except with the handler only logging: no error message is enqueued.
ExceptSilent(r) ==
    /\ pc[r] = "except"
    /\ exc' = [exc EXCEPT ![r] = NoExc]
    /\ pc' = [pc EXCEPT ![r] = "finally"]
    /\ UNCHANGED <<context, session, risk_result_dict, stream, sessions, calls, chan>>

\* The except clause: error_message is built from e and enqueued; a raise of
\* this enqueue_event is not caught and propagates after the finally clause.
Except(r) ==
    /\ pc[r] = "except"
    /\ \E ok \in BOOLEAN :
        /\ chan' = [chan EXCEPT ![r] =
               Append(@, EnqueueOp(ErrorMessage(context[r], exc[r]), ok))]
        /\ exc' = [exc EXCEPT ![r] = IF ok THEN NoExc ELSE QueueError]
    /\ pc' = [pc EXCEPT ![r] = "finally"]
    /\ UNCHANGED <<context, session, risk_result_dict, stream, sessions, calls>>

\* The finally clause closes the queue; execute then returns, or raises the
\* propagating exception, and its locals are gone.
Finally(r) ==
    /\ pc[r] = "finally"
    /\ chan' = [chan EXCEPT ![r] = Append(@, CloseOp("execute"))]
    /\ pc' = [pc EXCEPT ![r] = IF exc[r] = NoExc THEN "returned" ELSE "raised"]
    /\ session' = [session EXCEPT ![r] = NoSession]
    /\ risk_result_dict' = [risk_result_dict EXCEPT ![r] = NoResponse]
    /\ exc' = [exc EXCEPT ![r] = NoExc]
    /\ UNCHANGED <<context, stream, sessions, calls>>

\* Cancel that also reports the cancellation with a message of its own.
CancelWithMessage(r) ==
    /\ CancelCount < MaxCancels
    /\ chan' = [chan EXCEPT ![r] =
           Append(Append(@, [op |-> "enqueue", by |-> "cancel", ok |-> TRUE,
                             message |-> ErrorMessage(context[r], NoExc)]),
                  CloseOp("cancel"))]
    /\ UNCHANGED <<pc, context, session, risk_result_dict, exc, stream, sessions, calls>>

\* cancel: a warning is logged and the queue closed.
Cancel(r) ==
    /\ CancelCount < MaxCancels
    /\ chan' = [chan EXCEPT ![r] = Append(@, CloseOp("cancel"))]
    /\ UNCHANGED <<pc, context, session, risk_result_dict, exc, stream, sessions, calls>>

\* One request, any input, any answer of the environment, cancel at any time.
One == {1}

Next ==
    \E r \in One :
        \/ Execute(r)
        \/ GetSession(r)
        \/ CreateSession(r)
        \/ RunAsync(r)
        \/ NextEvent(r)
        \/ StreamEnd(r)
        \/ StreamRaise(r)
        \/ EnqueueFinal(r)
        \/ Except(r)
        \/ Finally(r)
        \/ Cancel(r)

Spec == Init /\ [][Next]_vars

\* The event loop resumes a coroutine whose awaited call has completed:
\* every step of an execute that has been called is taken in the end.
\* Calling execute or cancel is up to the caller.
Resume(r) ==
    \/ GetSession(r)
    \/ CreateSession(r)
    \/ RunAsync(r)
    \/ NextEvent(r)
    \/ StreamEnd(r)
    \/ StreamRaise(r)
    \/ EnqueueFinal(r)
    \/ Except(r)
    \/ Finally(r)

SpecFair == Spec /\ \A r \in One : WF_vars(Resume(r))

\* Several requests, each handed to execute when the one before it has
\* returned, from a smaller choice of inputs and events.
SeqContextIds == {NULL, "s1", "s2"}
SeqMessages == {NoMessage, Message(<<DataPart(RequiredKeys, TRUE)>>)}
SeqEvents == {Event(<<EventPart(FunctionResponse(RESULT_NAME, Approve))>>)}

ExecuteSeq(r) ==
    /\ \A q \in Reqs : q < r => Returned(q)
    /\ ExecuteWith(r, SeqContextIds, SeqMessages)

NextEventSeq(r) == NextEventWith(r, SeqEvents)

NextSeq ==
    \E r \in Reqs :
        \/ ExecuteSeq(r)
        \/ GetSession(r)
        \/ CreateSession(r)
        \/ RunAsync(r)
        \/ NextEventSeq(r)
        \/ StreamEnd(r)
        \/ StreamRaise(r)
        \/ EnqueueFinal(r)
        \/ Except(r)
        \/ Finally(r)

SpecSeq == Init /\ [][NextSeq]_vars

\* Several requests whose executes interleave at their awaits.
ConcContextIds == {NULL, "s1"}
ConcMessages == {Message(<<DataPart(RequiredKeys, TRUE)>>)}

ExecuteConc(r) == ExecuteWith(r, ConcContextIds, ConcMessages)

NextConc ==
    \E r \in Reqs :
        \/ ExecuteConc(r)
        \/ GetSession(r)
        \/ CreateSession(r)
        \/ RunAsync(r)
        \/ NextEventSeq(r)
        \/ StreamEnd(r)
        \/ StreamRaise(r)
        \/ EnqueueFinal(r)
        \/ Except(r)
        \/ Finally(r)

SpecConc == Init /\ [][NextConc]_vars

----------------------------------------------------------------------------
\* Reading the event queue's record.

Select(r, Test(_)) == SelectSeq(chan[r], Test)
IsEnqueue(o) == o.op = "enqueue"
IsAccepted(o) == o.op = "enqueue" /\ o.ok
IsExecuteClose(o) == o.op = "close" /\ o.by = "execute"
IsCancelClose(o) == o.op = "close" /\ o.by = "cancel"

Enqueues(r) == Select(r, IsEnqueue)
Accepted(r) == Select(r, IsAccepted)
ExecuteCloses(r) == Len(Select(r, IsExecuteClose))

----------------------------------------------------------------------------
\* C1: once execute has returned or raised, its queue has been closed by it
\* exactly once, at least one enqueue was attempted, and exactly one message
\* has been enqueued, whatever the request and whatever get_session,
\* create_session and the runner did. The one case with no message is an
\* enqueue_event that raised inside the except clause: the queue took nothing.
C1_ExactlyOneMessage ==
    \A r \in Reqs :
        Returned(r) =>
            /\ ExecuteCloses(r) = 1
            /\ Len(Enqueues(r)) >= 1
            /\ \/ Len(Accepted(r)) = 1
               \/ Len(Accepted(r)) = 0 /\ pc[r] = "raised"

\* The success path's enqueue raised, the except clause's enqueue got through.
C1_Witness ==
    /\ pc[1] = "returned"
    /\ Len(Enqueues(1)) = 2
    /\ Len(Accepted(1)) = 1
    /\ ExecuteCloses(1) = 1

\* C2: no error ever escapes execute: it never leaves by raising.
C2_NoErrorEscapes == \A r \in Reqs : pc[r] # "raised"

\* C3: execute closes its queue exactly once, after every enqueue it
\* attempts, also when an enqueue raised; it attempts none after its close.
C3_CloseOnceAfterEnqueues ==
    \A r \in Reqs :
        /\ ExecuteCloses(r) <= 1
        /\ Returned(r) => ExecuteCloses(r) = 1
        /\ \A i, j \in 1 .. Len(chan[r]) :
              IsExecuteClose(chan[r][i]) /\ IsEnqueue(chan[r][j]) => j < i

\* Both enqueues raised and the queue was closed all the same.
C3_Witness ==
    /\ pc[1] = "raised"
    /\ Len(Enqueues(1)) = 2
    /\ Len(Accepted(1)) = 0
    /\ ExecuteCloses(1) = 1

\* C4: for a request whose context_id is None or empty, every message execute
\* hands to the queue has approved = False and the reason naming the missing
\* context id, one such message is handed over, it is the one message
\* enqueued when execute returns, and get_session, create_session and
\* run_async are never called.
C4_MissingContextId ==
    \A r \in Reqs :
        (pc[r] # "idle" /\ context[r].context_id \in {NULL, ""}) =>
            /\ calls[r] = <<>>
            /\ \A i \in 1 .. Len(Enqueues(r)) :
                  /\ Enqueues(r)[i].message.data.approved = FALSE
                  /\ Enqueues(r)[i].message.data.reason =
                        "An internal error occurred: Context ID is missing, cannot execute."
            /\ Returned(r) => Len(Enqueues(r)) = 1
            /\ pc[r] = "returned" => Len(Accepted(r)) = 1

\* A request with an empty context_id and a complete payload was answered.
C4_Witness ==
    /\ pc[1] = "returned"
    /\ context[1].context_id = ""
    /\ ~PayloadIncomplete(AgentInputData(context[1].message))
    /\ Len(Accepted(1)) = 1

\* The payloads C5 is about: no message or no data part in first place
\* (missing), an empty dict, or a dict without one of the two keys.
PayloadRejected(m) ==
    \/ ~m.present
    \/ Len(m.parts) = 0
    \/ m.parts[1].kind # "data"
    \/ m.parts[1].keys = {}
    \/ ~("trade_proposal" \in m.parts[1].keys)
    \/ ~("portfolio_state" \in m.parts[1].keys)

\* C5: for a request with a non-empty context_id whose payload is missing,
\* empty or lacks trade_proposal or portfolio_state, every message execute
\* hands to the queue has approved = False, one is handed over, it is the one
\* message enqueued when execute returns, and get_session, create_session and
\* run_async are never called.
C5_IncompletePayload ==
    \A r \in Reqs :
        (/\ pc[r] # "idle"
         /\ context[r].context_id \notin {NULL, ""}
         /\ PayloadRejected(context[r].message)) =>
            /\ calls[r] = <<>>
            /\ \A i \in 1 .. Len(Enqueues(r)) :
                  Enqueues(r)[i].message.data.approved = FALSE
            /\ Returned(r) => Len(Enqueues(r)) = 1
            /\ pc[r] = "returned" => Len(Accepted(r)) = 1

\* A request with a context_id whose payload has trade_proposal only.
C5_Witness ==
    /\ pc[1] = "returned"
    /\ context[1].context_id = "s1"
    /\ context[1].message = Message(<<DataPart({"trade_proposal"}, TRUE)>>)
    /\ Len(Accepted(1)) = 1

----------------------------------------------------------------------------
\* Reading the record of calls.

CallCount(r, op) == Cardinality({i \in 1 .. Len(calls[r]) : calls[r][i].op = op})

\* A request that passes the validation of the spec's data model.
ValidRequest(r) ==
    /\ pc[r] # "idle"
    /\ context[r].context_id \notin {NULL, ""}
    /\ ~PayloadRejected(context[r].message)
    /\ context[r].message.parts[1].json_ok

\* get_session and create_session did not fail for r: neither raised and
\* create_session returned a session.
StoreDidNotFail(r) ==
    \A i \in 1 .. Len(calls[r]) :
        /\ calls[r][i].result # "raise"
        /\ calls[r][i].op = "create_session" => calls[r][i].result = "session"

\* C6: two valid requests with the same context_id, executed one after the
\* other and the only ones to reach the session service with that id, against
\* a service that does not fail: create_session is called once in all, by the
\* first, and get_session at least once by each.
C6_SessionReuse ==
    \A a, b \in Reqs :
        (/\ a < b
         /\ Returned(a) /\ Returned(b)
         /\ ValidRequest(a) /\ ValidRequest(b)
         /\ context[a].context_id = context[b].context_id
         /\ StoreDidNotFail(a) /\ StoreDidNotFail(b)
         /\ \A q \in Reqs \ {a, b} :
               context[q].context_id = context[a].context_id => calls[q] = <<>>) =>
            /\ CallCount(a, "create_session") + CallCount(b, "create_session") = 1
            /\ CallCount(b, "create_session") = 0
            /\ CallCount(a, "get_session") >= 1
            /\ CallCount(b, "get_session") >= 1

\* The second request found the session the first one created.
C6_Witness ==
    /\ MaxReqs >= 2
    /\ pc[1] = "returned" /\ pc[2] = "returned"
    /\ ValidRequest(1) /\ ValidRequest(2)
    /\ context[1].context_id = context[2].context_id
    /\ StoreDidNotFail(1) /\ StoreDidNotFail(2)
    /\ CallCount(1, "create_session") = 1
    /\ calls[2][1].op = "get_session" /\ calls[2][1].result = "session"

\* C7: the verdict is the response of the first event of the stream that
\* carries a risk_check_result function response with a dict response: no
\* event is drawn after that event, risk_result_dict is its response when the
\* loop is left, and final_message carries it.
C7_FirstResultAdopted ==
    \A r \in Reqs :
        stream[r].carried_at > 0 =>
            /\ stream[r].consumed = stream[r].carried_at
            /\ pc[r] = "enqueue" => risk_result_dict[r] = stream[r].carried
            /\ Len(Enqueues(r)) >= 1 =>
                  Enqueues(r)[1].message.data = stream[r].carried

\* C8: when the stream ends without raising and no event of it carried a
\* risk_check_result with a dict response, the loop was left at the end of
\* the stream with the default in risk_result_dict, final_message carries
\* exactly the default, and it is the one message enqueued if the queue
\* takes it.
C8_DefaultWhenNoResult ==
    \A r \in Reqs :
        stream[r].carried_at = 0 =>
            /\ pc[r] = "enqueue" =>
                  stream[r].ended /\ risk_result_dict[r] = DefaultResult
            /\ (stream[r].ended /\ Len(Enqueues(r)) >= 1) =>
                  Enqueues(r)[1].message.data =
                      [type |-> "dict", approved |-> FALSE,
                       reason |-> "Agent did not produce a result."]
            /\ (stream[r].ended /\ Returned(r) /\ Enqueues(r)[1].ok) =>
                  Accepted(r) = <<Enqueues(r)[1]>>

\* Events were drawn, none matched, the stream ended, the default was sent.
C8_Witness ==
    /\ pc[1] = "returned"
    /\ stream[1].ended
    /\ stream[1].consumed >= 2
    /\ stream[1].carried_at = 0
    /\ Len(Accepted(1)) = 1
    /\ Accepted(1)[1].message.data = DefaultResult

\* The runner raised for r: run_async itself, or its stream.
EngineRaised(r) ==
    \/ stream[r].raised
    \/ \E i \in 1 .. Len(calls[r]) :
          calls[r][i].op = "run_async" /\ calls[r][i].result = "raise"

\* C9: when the runner raises, every message execute hands to the queue has
\* approved = False and the internal-error reason with the caught error in
\* it, there is one such message and no final_message, it is the one message
\* enqueued when execute returns, and the queue is closed.
C9_EngineFailure ==
    \A r \in Reqs :
        EngineRaised(r) =>
            /\ \A i \in 1 .. Len(Enqueues(r)) :
                  /\ Enqueues(r)[i].message.data.approved = FALSE
                  /\ Enqueues(r)[i].message.data.reason =
                        "An internal error occurred: engine failure"
            /\ Returned(r) => Len(Enqueues(r)) = 1 /\ ExecuteCloses(r) = 1
            /\ pc[r] = "returned" => Len(Accepted(r)) = 1

\* The stream raised after it had yielded an event.
C9_Witness ==
    /\ pc[1] = "returned"
    /\ stream[1].raised
    /\ stream[1].consumed >= 1
    /\ Len(Accepted(1)) = 1
    /\ ExecuteCloses(1) = 1

\* A step in which cancel closed the queue of r.
CancelStep(r) ==
    /\ Len(chan'[r]) > Len(chan[r])
    /\ IsCancelClose(chan'[r][Len(chan'[r])])

\* C10: a cancel adds one close to its queue and changes nothing else (no
\* message, no call of the session service or the runner, no move of any
\* execute), and it can be taken wherever execute stands.
C10_CancelOnlyCloses ==
    /\ [][\A r \in Reqs :
            CancelStep(r) =>
                /\ chan'[r] = Append(chan[r], CloseOp("cancel"))
                /\ \A q \in Reqs \ {r} : chan'[q] = chan[q]
                /\ UNCHANGED <<pc, context, session, risk_result_dict, exc,
                               stream, sessions, calls>>]_vars
    /\ [](\A r \in One : CancelCount < MaxCancels => ENABLED Cancel(r))

\* cancel closed the queue while execute was drawing from the stream.
C10_Witness ==
    /\ pc[1] = "iterate"
    /\ Len(chan[1]) = 1
    /\ IsCancelClose(chan[1][1])

----------------------------------------------------------------------------
\* C11 as stated: get_session and create_session are called with app scope
\* "risk_adapter", user_id "system_user" and the request's context_id, and
\* run_async with that user_id and that session id.
C11_SpecIdentity ==
    \A r \in Reqs : \A i \in 1 .. Len(calls[r]) :
        /\ calls[r][i].session_id = context[r].context_id
        /\ calls[r][i].user_id = "system_user"
        /\ calls[r][i].op \in {"get_session", "create_session"} =>
              calls[r][i].app_name = "risk_adapter"

\* C11 as amended: get_session and create_session are called with app_name
\* "riskguard_adk_runner", user_id "a2a_user" and the request's context_id,
\* and run_async with that same user_id and that same session id.
C11_SessionIdentity ==
    \A r \in Reqs : \A i \in 1 .. Len(calls[r]) :
        /\ calls[r][i].session_id = context[r].context_id
        /\ calls[r][i].user_id = "a2a_user"
        /\ calls[r][i].op \in {"get_session", "create_session"} =>
              calls[r][i].app_name = "riskguard_adk_runner"

\* get_session, create_session and run_async were all called for "s1".
C11_Witness ==
    /\ Len(calls[1]) = 3
    /\ calls[1][1].op = "get_session"
    /\ calls[1][2].op = "create_session"
    /\ calls[1][3].op = "run_async"
    /\ calls[1][3].session_id = "s1"

\* get_session raised for r.
GetRaised(r) ==
    /\ Len(calls[r]) >= 1
    /\ calls[r][1].op = "get_session"
    /\ calls[r][1].result = "raise"

\* C12: when get_session raises, execute does not go to its except clause:
\* it calls create_session, once; when that returns a session run_async is
\* called, and unless the runner raises final_message carries the verdict
\* of the stream (a risk_check_result response or the default), not an error.
C12_GetFailureIsNotFound ==
    \A r \in Reqs :
        GetRaised(r) =>
            /\ pc[r] = "create_session" => Len(calls[r]) = 1
            /\ pc[r] # "create_session" =>
                  /\ CallCount(r, "create_session") = 1
                  /\ calls[r][2].op = "create_session"
            /\ (/\ pc[r] \notin {"create_session", "run_async"}
                /\ calls[r][2].result = "session") =>
                  /\ CallCount(r, "run_async") = 1
                  /\ (~EngineRaised(r) /\ Len(Enqueues(r)) >= 1) =>
                        Enqueues(r)[1].message.data \in
                            {[type |-> "dict", approved |-> FALSE,
                              reason |-> "Agent did not produce a result."],
                             Approve, Deny}

\* get_session raised, create_session gave a session, the verdict was sent.
C12_Witness ==
    /\ GetRaised(1)
    /\ pc[1] = "returned"
    /\ calls[1][2].result = "session"
    /\ Len(Accepted(1)) = 1
    /\ Accepted(1)[1].message.data = Approve

\* create_session raised or returned None for r.
CreateFailed(r) ==
    \E i \in 1 .. Len(calls[r]) :
        calls[r][i].op = "create_session" /\ calls[r][i].result \in {"none", "raise"}

\* C13: when create_session raises or returns None, it is not called again,
\* run_async is never called, and the one message execute hands to the queue
\* has approved = False and the reason naming the failure to establish the
\* session.
C13_SessionUnavailable ==
    \A r \in Reqs :
        CreateFailed(r) =>
            /\ CallCount(r, "create_session") = 1
            /\ CallCount(r, "run_async") = 0
            /\ \A i \in 1 .. Len(Enqueues(r)) :
                  /\ Enqueues(r)[i].message.data.approved = FALSE
                  /\ Enqueues(r)[i].message.data.reason =
                        IF context[r].context_id = "s1"
                        THEN "An internal error occurred: Failed to establish ADK session. session_id was 's1'."
                        ELSE "An internal error occurred: Failed to establish ADK session. session_id was 's2'."
            /\ Returned(r) => Len(Enqueues(r)) = 1
            /\ pc[r] = "returned" => Len(Accepted(r)) = 1

\* get_session returned None, create_session returned None, the error was sent.
C13_Witness ==
    /\ pc[1] = "returned"
    /\ Len(calls[1]) = 2
    /\ calls[1][1].result = "none"
    /\ calls[1][2].result = "none"
    /\ Len(Accepted(1)) = 1

\* The calls of one execute in the order the code allows: get_session, then
\* create_session if get_session gave no session, then run_async once a
\* session is there.
CallsInOrder(r) ==
    /\ Len(calls[r]) <= 3
    /\ Len(calls[r]) >= 1 => calls[r][1].op = "get_session"
    /\ Len(calls[r]) >= 2 =>
          IF calls[r][1].result = "session"
          THEN calls[r][2].op = "run_async" /\ Len(calls[r]) = 2
          ELSE calls[r][2].op = "create_session"
    /\ Len(calls[r]) = 3 =>
          calls[r][2].result = "session" /\ calls[r][3].op = "run_async"

\* C14: within one execute the calls come in the order get_session,
\* create_session (only when get_session gave no session), run_async (at
\* most once, only with a session), enqueue_event, close: no call of the
\* session service or the runner is made once an enqueue was attempted, and
\* no enqueue once execute has closed the queue.
C14_StrictOrder ==
    /\ [](\A r \in Reqs : CallsInOrder(r) /\ CallCount(r, "run_async") <= 1)
    /\ [][\A r \in Reqs :
            /\ calls'[r] # calls[r] =>
                  Len(Enqueues(r)) = 0 /\ ExecuteCloses(r) = 0
            /\ Len(Enqueues(r)') > Len(Enqueues(r)) => ExecuteCloses(r) = 0]_vars

\* The second request found its session and went straight to run_async.
C14_Witness ==
    /\ MaxReqs >= 2
    /\ pc[2] = "returned"
    /\ Len(calls[2]) = 2
    /\ calls[2][1].result = "session"
    /\ calls[2][2].op = "run_async"
    /\ Len(calls[1]) = 3

\* C15: every message execute hands to the queue of a request, final or
\* error, carries that request's context_id (None when it has none) and
\* task_id, and the task_id of no other request.
C15_MessageCorrelation ==
    \A r \in Reqs : \A i \in 1 .. Len(Enqueues(r)) :
        /\ Enqueues(r)[i].message.context_id = context[r].context_id
        /\ Enqueues(r)[i].message.task_id = context[r].task_id
        /\ \A q \in Reqs \ {r} :
              pc[q] # "idle" => Enqueues(r)[i].message.task_id # context[q].task_id

\* Two executes in flight together, one answering a request without
\* context_id with an error, the other a request of "s1" with its verdict.
C15_Witness ==
    /\ MaxReqs >= 2
    /\ pc[1] = "finally" /\ pc[2] = "finally"
    /\ context[1].context_id = NULL /\ context[2].context_id = "s1"
    /\ Len(Accepted(1)) = 1 /\ Accepted(1)[1].message.task_id = "t1"
    /\ Len(Accepted(2)) = 1 /\ Accepted(2)[1].message.data = Approve

\* C16: two valid requests with the same context_id, interleaved at their
\* awaits and the only ones to use that id, against a session service whose
\* get_session and create_session never raise or return None where a session
\* can be given: create_session is called once in all, and both requests run
\* the agent and hand over its verdict.
C16_OneCreateWhenInterleaved ==
    \A a, b \in Reqs :
        (/\ a < b
         /\ Returned(a) /\ Returned(b)
         /\ ValidRequest(a) /\ ValidRequest(b)
         /\ context[a].context_id = context[b].context_id
         /\ StoreDidNotFail(a) /\ StoreDidNotFail(b)
         /\ \A q \in Reqs \ {a, b} :
               context[q].context_id = context[a].context_id => calls[q] = <<>>) =>
            /\ CallCount(a, "create_session") + CallCount(b, "create_session") = 1
            /\ CallCount(a, "run_async") = 1
            /\ CallCount(b, "run_async") = 1

\* C17: under fair scheduling every execute that was called returns or
\* raises after its close; it calls get_session, create_session and
\* run_async at most once each, attempts at most two enqueues, and its
\* stream only moves forward, one event at a time.
C17_Terminates ==
    /\ \A r \in Reqs : (pc[r] # "idle") ~> Returned(r)
    /\ [](\A r \in Reqs :
            /\ CallCount(r, "get_session") <= 1
            /\ CallCount(r, "create_session") <= 1
            /\ CallCount(r, "run_async") <= 1
            /\ Len(Enqueues(r)) <= 2
            /\ ExecuteCloses(r) <= 1)
    /\ [][\A r \in Reqs :
            \/ stream'[r].consumed = stream[r].consumed
            \/ stream'[r].consumed = stream[r].consumed + 1]_vars

\* execute returned after a stream that yielded events and ended.
C17_Witness ==
    /\ pc[1] = "returned"
    /\ stream[1].consumed >= 2
    /\ stream[1].ended
    /\ ExecuteCloses(1) = 1

\* C18: a message with approved = True is handed to the queue only as
\* final_message of a valid request for which a session was obtained and
\* whose stream yielded, as the last event drawn, a risk_check_result
\* function response with a dict response that has approved = True and is
\* the message's payload; not after the stream ended or the runner raised,
\* and never from the except clause.
C18_NeverApprovesOnItsOwn ==
    \A r \in Reqs : \A i \in 1 .. Len(Enqueues(r)) :
        Enqueues(r)[i].message.data.approved = TRUE =>
            /\ i = 1
            /\ ValidRequest(r)
            /\ \E j \in 1 .. Len(calls[r]) :
                  /\ calls[r][j].op \in {"get_session", "create_session"}
                  /\ calls[r][j].result = "session"
            /\ \E j \in 1 .. Len(calls[r]) :
                  calls[r][j].op = "run_async" /\ calls[r][j].result = "stream"
            /\ ~stream[r].ended
            /\ ~stream[r].raised
            /\ stream[r].consumed >= 1
            /\ stream[r].last.has_content
            /\ Len(stream[r].last.parts) >= 1
            /\ stream[r].last.parts[1].function_response.present
            /\ stream[r].last.parts[1].function_response.name = "risk_check_result"
            /\ stream[r].last.parts[1].function_response.response.type = "dict"
            /\ stream[r].last.parts[1].function_response.response.approved = TRUE
            /\ Enqueues(r)[i].message.data =
                  stream[r].last.parts[1].function_response.response

\* An approval was enqueued after an event that did not match.
C18_Witness ==
    /\ pc[1] = "returned"
    /\ stream[1].consumed >= 2
    /\ Len(Accepted(1)) = 1
    /\ Accepted(1)[1].message.data.approved = TRUE

\* C19: create_session is called only for an id that has no session in the
\* store at that moment, and no step removes a session from the store.
\* Refuted: a get_session that raises is taken for "not found", and
\* create_session is then called for a session the store holds.
C19_CreateOnlyWhenAbsent ==
    [][/\ sessions \subseteq sessions'
       /\ \A r \in Reqs :
             (/\ Len(calls'[r]) = Len(calls[r]) + 1
              /\ calls'[r][Len(calls'[r])].op = "create_session")
             => [app_name |-> calls'[r][Len(calls'[r])].app_name,
                 user_id |-> calls'[r][Len(calls'[r])].user_id,
                 id |-> calls'[r][Len(calls'[r])].session_id] \notin sessions]_vars

\* C20: when execute and cancel are both invoked on a request's queue, the
\* queue is closed exactly once and nothing is enqueued after a close.
\* Refuted: cancel closes the queue whatever execute is doing, and execute
\* enqueues and closes without regard to cancel.
C20_ClosedOnceNoLateEnqueue ==
    \A r \in Reqs :
        /\ (Returned(r) /\ Len(Select(r, IsCancelClose)) >= 1)
              => Len(Select(r, IsCancelClose)) + ExecuteCloses(r) = 1
        /\ \A i, j \in 1 .. Len(chan[r]) :
              (i < j /\ chan[r][i].op = "close") => chan[r][j].op # "enqueue"

====
